---- MODULE Spec2Model ----
(***************************************************************************)
(* CMS TEAM ROI calculator (team_roi_calculator_app.py).                   *)
(*                                                                         *)
(* The program is a Streamlit script: every committed widget change        *)
(* re-runs the whole script, top to bottom, against the current widget     *)
(* values.  The state is the widget values (Streamlit's session state)     *)
(* and what the last run of the script left behind: its namespace (rows,   *)
(* df, total_rec, net_impact, roi_pct) and the page it rendered.           *)
(*                                                                         *)
(* Arithmetic.  Every money and percentage value of the script is a Python *)
(* float.  A float is modelled as a binary floating-point number with a    *)
(* significand of Precision bits, rounded to nearest, ties to even, after  *)
(* every operation, as IEEE 754 does; the exponent is unbounded (no        *)
(* overflow to inf, no underflow, no NaN, no signed zero).  binary64 has a *)
(* significand of 53 bits; Precision is a bound of the model.              *)
(***************************************************************************)
EXTENDS Integers, Sequences, FiniteSets, TLC

\* Bits of a float's significand (53 in binary64).
Precision == 14

\* Entries of DEFAULT_EPISODES the model keeps (the first NumEpisodes of 5).
NumEpisodes == 3

\* Widget interactions in one session of the shipped script.
MaxEdits == 3

\* Widget interactions in one session over a shorter or longer catalogue.
CatalogueEdits == 2

-----------------------------------------------------------------------------
(* Floats: [m, e] stands for m * 2^e; zero is [0, 0], and every other      *)
(* float has 2^(Precision-1) <= |m| < 2^Precision, so equal values are     *)
(* equal records.                                                          *)

Pow2(k) == 2 ^ k

Abs(n) == IF n < 0 THEN -n ELSE n

Sign(n) == IF n < 0 THEN -1 ELSE 1

\* Number of bits of a, for a > 0.
RECURSIVE BitLen(_)
BitLen(a) ==
    IF a >= 65536 THEN 16 + BitLen(a \div 65536)
    ELSE IF a >= 256 THEN 8 + BitLen(a \div 256)
    ELSE IF a >= 16 THEN 4 + BitLen(a \div 16)
    ELSE IF a >= 4 THEN 2 + BitLen(a \div 4)
    ELSE IF a >= 2 THEN 2
    ELSE 1

Zero == [m |-> 0, e |-> 0]

\* s * (num / den) * 2^e rounded to an integer significand, nearest, ties
\* to even, for 2^(Precision-1) <= num / den < 2^Precision.
RoundTo(s, num, den, e) ==
    LET q == num \div den
        r == num % den
        q1 == IF 2 * r > den \/ (2 * r = den /\ q % 2 = 1) THEN q + 1 ELSE q
    IN  IF q1 = Pow2(Precision)
        THEN [m |-> s * Pow2(Precision - 1), e |-> e + 1]
        ELSE [m |-> s * q1, e |-> e]

\* s * (a / d) * 2^(e0 - k), with a / d scaled by 2^k.
Scaled(s, a, d, e0, k) ==
    IF k >= 0 THEN RoundTo(s, a * Pow2(k), d, e0 - k)
    ELSE RoundTo(s, a, d * Pow2(-k), e0 - k)

\* The scaling that brings a / d into 2^(Precision-1) .. 2^Precision - 1,
\* given sh = Precision + BitLen(d) - BitLen(a).
Shift(a, d, sh) ==
    IF sh >= 0
    THEN IF (a * Pow2(sh)) \div d >= Pow2(Precision) THEN sh - 1 ELSE sh
    ELSE IF a \div (d * Pow2(-sh)) >= Pow2(Precision) THEN sh - 1 ELSE sh

\* s * (a / d) * 2^e0 rounded to Precision bits, nearest, ties to even
\* (s is 1 or -1, a > 0, d > 0).
RoundQ(s, a, d, e0) ==
    Scaled(s, a, d, e0, Shift(a, d, Precision + BitLen(d) - BitLen(a)))

\* float(n / d) for a decimal literal or an int n / d.
FromRat(n, d) == IF n = 0 THEN Zero ELSE RoundQ(Sign(n), Abs(n), d, 0)

FromInt(n) == FromRat(n, 1)

FNeg(x) == [m |-> -x.m, e |-> x.e]

\* x + y.  The operand of smaller exponent is aligned to the other with
\* three extra bits, the last of them sticky, then the sum is rounded.
FAdd(x, y) ==
    IF x.m = 0 THEN y
    ELSE IF y.m = 0 THEN x
    ELSE LET hi == IF x.e >= y.e THEN x ELSE y
             lo == IF x.e >= y.e THEN y ELSE x
             diff == hi.e - lo.e
             far == diff > Precision + 3
             t == Abs(lo.m) * 8
             cut == IF far THEN 0 ELSE t \div Pow2(diff)
             sticky == IF far THEN TRUE ELSE t % Pow2(diff) # 0
             loMag == IF sticky /\ cut % 2 = 0 THEN cut + 1 ELSE cut
             S == hi.m * 8 + Sign(lo.m) * loMag
         IN  IF S = 0 THEN Zero ELSE RoundQ(Sign(S), Abs(S), 1, hi.e - 3)

FSub(x, y) == FAdd(x, FNeg(y))

\* x * y.  The product of two significands has 2 * Precision bits or one
\* bit less.
FMul(x, y) ==
    IF x.m = 0 \/ y.m = 0 THEN Zero
    ELSE LET a == Abs(x.m) * Abs(y.m)
             k == IF a >= Pow2(2 * Precision - 1)
                  THEN -Precision ELSE 1 - Precision
         IN  Scaled(Sign(x.m) * Sign(y.m), a, 1, x.e + y.e, k)

\* x / y for y # 0.  The quotient of two significands is in (1/2, 2).
FDiv(x, y) ==
    IF x.m = 0 THEN Zero
    ELSE LET k == IF Abs(x.m) >= Abs(y.m) THEN Precision - 1 ELSE Precision
         IN  Scaled(Sign(x.m) * Sign(y.m), Abs(x.m), Abs(y.m), x.e - y.e, k)

\* x <= y and x < y: the difference of two floats rounds to a float of its
\* own sign.
FLe(x, y) == FSub(x, y).m <= 0

FLt(x, y) == FSub(x, y).m < 0

-----------------------------------------------------------------------------
(* The form: the widgets of the script, their bounds and defaults.         *)

One == FromInt(1)

Hundred == FromInt(100)

\* st.sidebar.selectbox("TEAM Participation Track", [...]); the first option
\* is the default.
TrackOptions == {"Track 1", "Track 2", "Track 3"}

TrackDefault == "Track 1"

\* number_input "CMS discount applied to target price (%)".
DiscountMin == FromRat(0, 10)

DiscountMax == FromRat(100, 10)

DiscountDefault == FromRat(30, 10)

\* min_value=0.0, max_value=10.0: the entries the widget commits.
DiscountAccepted(v) == FLe(DiscountMin, v) /\ FLe(v, DiscountMax)

\* number_input "Quality performance adjustment (%)".
QualityMin == FromRat(-50, 10)

QualityMax == FromRat(50, 10)

QualityDefault == FromRat(0, 10)

\* min_value=-5.0, max_value=5.0.
QualityAccepted(v) == FLe(QualityMin, v) /\ FLe(v, QualityMax)

\* number_input "Total annual implementation cost ($)": no max_value.
ImplCostMin == FromInt(0)

ImplCostDefault == FromInt(250000)

\* min_value=0.0.
ImplCostAccepted(v) == FLe(ImplCostMin, v)

\* DEFAULT_EPISODES, in the dict's (insertion) order.
Catalogue ==
    << [proc |-> "Lower extremity joint replacement",
        volume |-> 150, baseline_cost |-> 26500],
       [proc |-> "Hip/femur fracture",
        volume |-> 80, baseline_cost |-> 29500],
       [proc |-> "Spinal fusion",
        volume |-> 40, baseline_cost |-> 42000],
       [proc |-> "Coronary artery bypass graft",
        volume |-> 30, baseline_cost |-> 48000],
       [proc |-> "Major bowel procedure",
        volume |-> 25, baseline_cost |-> 35000] >>

\* number_input "Annual volume" (an int widget): min_value 0, no max_value.
VolumeMin == 0

\* A faulty variant: the annual-volume input without its min_value.
VolumeAcceptedAny(v) == TRUE

\* min_value=0.
VolumeAccepted(v) == VolumeMin <= v

\* number_input "Baseline average cost per episode": min_value 0.0, no
\* max_value; the default is float(defaults["baseline_cost"]).
BaseCostMin == FromInt(0)

\* min_value=0.0.
BaseCostAccepted(v) == FLe(BaseCostMin, v)

\* st.slider "Expected % cost reduction": a slider only yields positions
\* min_value + k * step up to max_value.
ReductionMin == FromRat(0, 10)

ReductionMax == FromRat(300, 10)

ReductionDefault == FromRat(50, 10)

Procs(eps) == {eps[i].proc : i \in 1..Len(eps)}

DefaultOf(eps, p) == CHOOSE d \in {eps[i] : i \in 1..Len(eps)} : d.proc = p

\* The widget values of the first run: every widget at its value= default.
DefaultWidgets(eps) ==
    [track |-> TrackDefault,
     discount_pct |-> DiscountDefault,
     quality_adj_pct |-> QualityDefault,
     impl_cost_total |-> ImplCostDefault,
     vol |-> [p \in Procs(eps) |-> DefaultOf(eps, p).volume],
     base_cost |-> [p \in Procs(eps) |-> FromInt(DefaultOf(eps, p).baseline_cost)],
     reduction |-> [p \in Procs(eps) |-> ReductionDefault]]

(* What the operator types or drags: a small set of entries per widget,    *)
(* with the bounds of the widget, its default and one entry outside the    *)
(* bounds of every number_input.                                           *)

DiscountEntries == {DiscountMin, DiscountDefault, DiscountMax, FromRat(-1, 10)}

QualityEntries == {QualityMin, QualityDefault, QualityMax, FromRat(-51, 10)}

ImplCostEntries == {ImplCostMin, ImplCostDefault, FromInt(-10000)}

VolumeEntries(eps, p) == {VolumeMin, DefaultOf(eps, p).volume, -5}

BaseCostEntries(eps, p) ==
    {BaseCostMin, FromInt(DefaultOf(eps, p).baseline_cost), FromInt(-500)}

ReductionPositions == {ReductionMin, ReductionDefault, ReductionMax}

-----------------------------------------------------------------------------
(* The script, from `rows = []` to the results.                            *)

\* A faulty variant: rows is not rebound and keeps the rows of the run before.
RowsKept(prev) == prev

\* rows = []: the list is rebound to a new empty list, whatever an earlier
\* run left in the name.
RowsReset(prev) == << >>

\* The loop over DEFAULT_EPISODES.items(): one appended dict per entry, in
\* the dict's order, holding the entry's three widget values.
AppendRows(start, eps, w) ==
    start \o [i \in 1..Len(eps) |->
                [Procedure |-> eps[i].proc,
                 Volume |-> w.vol[eps[i].proc],
                 Baseline_cost |-> w.base_cost[eps[i].proc],
                 Cost_reduction_pct |-> w.reduction[eps[i].proc]]]

\* A faulty variant: the discount taken as a fraction, not divided by 100.
TargetPriceFraction(baseline, discount) == FMul(baseline, FSub(One, discount))

\* df["Target price"] = df["Baseline cost"] * (1 - discount_pct / 100)
TargetPrice(baseline, discount) ==
    FMul(baseline, FSub(One, FDiv(discount, Hundred)))

\* A faulty variant: the cost reduction added instead of subtracted.
ExpectedCostPlus(baseline, red) ==
    FMul(baseline, FAdd(One, FDiv(red, Hundred)))

\* df["Expected cost"] = df["Baseline cost"] * (1 - df["Cost-reduction %"] / 100)
ExpectedCost(baseline, red) ==
    FMul(baseline, FSub(One, FDiv(red, Hundred)))

\* df["Reconciliation $/episode"] = df["Target price"] - df["Expected cost"]
ReconciliationPerEpisode(target, expected) == FSub(target, expected)

\* df["Annual reconciliation"] = df["Reconciliation $/episode"] * df["Volume"]
\* (Volume is an int column, converted to float by the product).
AnnualReconciliation(perEpisode, volume) == FMul(perEpisode, FromInt(volume))

\* df["Quality-adjusted reconciliation"] =
\*     df["Annual reconciliation"] * (1 + quality_adj_pct / 100)
QualityAdjusted(annual, quality) ==
    FMul(annual, FAdd(One, FDiv(quality, Hundred)))

\* One row of df after the five column assignments.
DataFrameRow(row, discount, quality) ==
    LET target == TargetPrice(row.Baseline_cost, discount)
        expected == ExpectedCost(row.Baseline_cost, row.Cost_reduction_pct)
        perEpisode == ReconciliationPerEpisode(target, expected)
        annual == AnnualReconciliation(perEpisode, row.Volume)
    IN  [Procedure |-> row.Procedure,
         Volume |-> row.Volume,
         Baseline_cost |-> row.Baseline_cost,
         Cost_reduction_pct |-> row.Cost_reduction_pct,
         Target_price |-> target,
         Expected_cost |-> expected,
         Reconciliation_per_episode |-> perEpisode,
         Annual_reconciliation |-> annual,
         Quality_adjusted_reconciliation |-> QualityAdjusted(annual, quality)]

\* df = pd.DataFrame(rows) and the column assignments: row-wise, in the
\* order of rows.
DataFrame(rows, discount, quality) ==
    [i \in 1..Len(rows) |-> DataFrameRow(rows[i], discount, quality)]

\* Series.sum(): the values added one after the other, first to last.
RECURSIVE SeriesSum(_)
SeriesSum(values) ==
    IF values = << >> THEN Zero
    ELSE FAdd(SeriesSum(SubSeq(values, 1, Len(values) - 1)), values[Len(values)])

\* A faulty variant: the sum leaves out the first row.
TotalRecSkipFirst(df) ==
    SeriesSum([i \in 1..(Len(df) - 1) |->
                   df[i + 1].Quality_adjusted_reconciliation])

\* total_rec = df["Quality-adjusted reconciliation"].sum()
TotalRec(df) ==
    SeriesSum([i \in 1..Len(df) |-> df[i].Quality_adjusted_reconciliation])

\* net_impact = total_rec - impl_cost_total
NetImpact(total, implCost) == FSub(total, implCost)

\* A faulty variant: the ratio is not scaled to a percentage.
RoiFraction(net, implCost) ==
    IF implCost.m # 0 THEN FDiv(net, implCost) ELSE Zero

\* A faulty variant: no guard; a float64 division by zero yields an infinity, which
\* stands here as a float of exponent 2000.
RoiPctUnguarded(net, implCost) ==
    IF implCost.m # 0 THEN FMul(FDiv(net, implCost), Hundred)
    ELSE [m |-> Sign(net.m) * Pow2(Precision - 1), e |-> 2000]

\* roi_pct = (net_impact / impl_cost_total * 100) if impl_cost_total else 0
RoiPct(net, implCost) ==
    IF implCost.m # 0 THEN FMul(FDiv(net, implCost), Hundred) ELSE Zero

\* A faulty variant: the script never stops at the warning.
NoRowsNever(rows) == FALSE

\* if not rows:
NoRows(rows) == rows = << >>

\* One run of the script against the widget values w.  It ends either at
\* st.stop(), after the warning, with only rows bound, or at the end of the
\* file, with the table and the four result lines on the page.
Script(eps, w, prev) ==
    LET rows == AppendRows(RowsReset(prev), eps, w)
    IN  IF NoRows(rows)
        THEN [ns |-> [rows |-> rows],
              page |-> <<"warning">>]
        ELSE LET df == DataFrame(rows, w.discount_pct, w.quality_adj_pct)
                 total == TotalRec(df)
                 net == NetImpact(total, w.impl_cost_total)
             IN  [ns |-> [rows |-> rows,
                          df |-> df,
                          total_rec |-> total,
                          net_impact |-> net,
                          roi_pct |-> RoiPct(net, w.impl_cost_total)],
                  page |-> <<"dataframe", "total_rec", "impl_cost_total",
                             "net_impact", "roi_pct", "caption">>]

-----------------------------------------------------------------------------
(* The state.                                                              *)

VARIABLES
    DEFAULT_EPISODES,   \* the catalogue the script loops over
    widgets,            \* the current value of every widget
    refused,            \* key of the widget that refused the last entry, or << >>
    ns,                 \* the names the last run of the script left bound
    page,               \* what the last run rendered below the inputs
    edits               \* interactions so far

vars == <<DEFAULT_EPISODES, widgets, refused, ns, page, edits>>

\* The names of an earlier run: the next run's rows starts from RowsReset.
PrevRows == IF "rows" \in DOMAIN ns THEN ns.rows ELSE << >>

FirstRun(eps) ==
    /\ DEFAULT_EPISODES = eps
    /\ widgets = DefaultWidgets(eps)
    /\ refused = << >>
    /\ \E run \in {Script(eps, DefaultWidgets(eps), << >>)} :
           ns = run.ns /\ page = run.page
    /\ edits = 0

\* The script as shipped: the first NumEpisodes entries of DEFAULT_EPISODES.
Init == FirstRun(SubSeq(Catalogue, 1, NumEpisodes))

\* The script over any prefix of the catalogue, the empty one included.
InitCatalogue == \E n \in 0..NumEpisodes : FirstRun(SubSeq(Catalogue, 1, n))

\* A widget value changed: Streamlit re-runs the whole script.
Commit(w) ==
    /\ widgets' = w
    /\ refused' = << >>
    /\ \E run \in {Script(DEFAULT_EPISODES, w, PrevRows)} :
           ns' = run.ns /\ page' = run.page
    /\ edits' = edits + 1
    /\ UNCHANGED DEFAULT_EPISODES

\* An entry outside a number_input's min_value / max_value is not committed:
\* the field reports it, the widget keeps its value and nothing re-runs.
Refuse(key) ==
    /\ refused' = key
    /\ edits' = edits + 1
    /\ UNCHANGED <<DEFAULT_EPISODES, widgets, ns, page>>

SelectTrack ==
    \E t \in TrackOptions :
        /\ edits < MaxEdits
        /\ t # widgets.track
        /\ Commit([widgets EXCEPT !.track = t])

EnterDiscount ==
    \E v \in DiscountEntries :
        /\ edits < MaxEdits
        /\ v # widgets.discount_pct
        /\ IF DiscountAccepted(v)
           THEN Commit([widgets EXCEPT !.discount_pct = v])
           ELSE Refuse(<<"discount_pct">>)

EnterQualityAdj ==
    \E v \in QualityEntries :
        /\ edits < MaxEdits
        /\ v # widgets.quality_adj_pct
        /\ IF QualityAccepted(v)
           THEN Commit([widgets EXCEPT !.quality_adj_pct = v])
           ELSE Refuse(<<"quality_adj_pct">>)

EnterImplCost ==
    \E v \in ImplCostEntries :
        /\ edits < MaxEdits
        /\ v # widgets.impl_cost_total
        /\ IF ImplCostAccepted(v)
           THEN Commit([widgets EXCEPT !.impl_cost_total = v])
           ELSE Refuse(<<"impl_cost_total">>)

EnterVolume ==
    \E p \in Procs(DEFAULT_EPISODES) :
        \E v \in VolumeEntries(DEFAULT_EPISODES, p) :
            /\ edits < MaxEdits
            /\ v # widgets.vol[p]
            /\ IF VolumeAccepted(v)
               THEN Commit([widgets EXCEPT !.vol[p] = v])
               ELSE Refuse(<<"vol", p>>)

EnterBaseCost ==
    \E p \in Procs(DEFAULT_EPISODES) :
        \E v \in BaseCostEntries(DEFAULT_EPISODES, p) :
            /\ edits < MaxEdits
            /\ v # widgets.base_cost[p]
            /\ IF BaseCostAccepted(v)
               THEN Commit([widgets EXCEPT !.base_cost[p] = v])
               ELSE Refuse(<<"base", p>>)

SlideReduction ==
    \E p \in Procs(DEFAULT_EPISODES) :
        \E v \in ReductionPositions :
            /\ edits < MaxEdits
            /\ v # widgets.reduction[p]
            /\ Commit([widgets EXCEPT !.reduction[p] = v])

Next ==
    \/ SelectTrack
    \/ EnterDiscount
    \/ EnterQualityAdj
    \/ EnterImplCost
    \/ EnterVolume
    \/ EnterBaseCost
    \/ SlideReduction

Spec == Init /\ [][Next]_vars

NextCatalogue ==
    \/ edits < CatalogueEdits /\ SelectTrack
    \/ edits < CatalogueEdits /\ EnterDiscount
    \/ edits < CatalogueEdits /\ EnterQualityAdj
    \/ edits < CatalogueEdits /\ EnterImplCost
    \/ edits < CatalogueEdits /\ EnterVolume
    \/ edits < CatalogueEdits /\ EnterBaseCost
    \/ edits < CatalogueEdits /\ SlideReduction

SpecCatalogue == InitCatalogue /\ [][NextCatalogue]_vars

-----------------------------------------------------------------------------
(* Properties.                                                             *)

\* The last run reached the calculations and rendered the results.
Results == "df" \in DOMAIN ns

WarningPage == <<"warning">>

ResultsPage ==
    <<"dataframe", "total_rec", "impl_cost_total", "net_impact", "roi_pct",
      "caption">>

NonNegative(x) == x.m >= 0

\* C1: every row of the results table, in the order of the catalogue, holds
\* the widget values of its procedure and
\*   target price = baseline * (1 - discount_pct / 100),
\*   expected cost = baseline * (1 - cost-reduction % / 100),
\*   reconciliation per episode = target price - expected cost,
\*   annual reconciliation = reconciliation per episode * volume,
\*   quality-adjusted = annual reconciliation * (1 + quality_adj_pct / 100),
\* each computed in float arithmetic with the percentages as entered.
C1_RowFormulas ==
    Results =>
        /\ Len(ns.df) = Len(DEFAULT_EPISODES)
        /\ \A i \in 1..Len(ns.df) :
            LET r == ns.df[i]
                p == DEFAULT_EPISODES[i].proc
            IN  /\ r.Procedure = p
                /\ r.Volume = widgets.vol[p]
                /\ r.Baseline_cost = widgets.base_cost[p]
                /\ r.Cost_reduction_pct = widgets.reduction[p]
                /\ r.Target_price =
                       FMul(r.Baseline_cost,
                            FSub(One, FDiv(widgets.discount_pct, Hundred)))
                /\ r.Expected_cost =
                       FMul(r.Baseline_cost,
                            FSub(One, FDiv(r.Cost_reduction_pct, Hundred)))
                /\ r.Reconciliation_per_episode =
                       FSub(r.Target_price, r.Expected_cost)
                /\ r.Annual_reconciliation =
                       FMul(r.Reconciliation_per_episode, FromInt(r.Volume))
                /\ r.Quality_adjusted_reconciliation =
                       FMul(r.Annual_reconciliation,
                            FAdd(One, FDiv(widgets.quality_adj_pct, Hundred)))

\* C1 witness: after an edit, a row with a non-zero quality adjustment, a
\* discount and a cost reduction that differ, and a non-zero result.
C1_Witness ==
    /\ Results
    /\ edits > 0
    /\ widgets.quality_adj_pct.m # 0
    /\ \E i \in 1..Len(ns.df) :
        /\ ns.df[i].Cost_reduction_pct # widgets.discount_pct
        /\ ns.df[i].Volume > 0
        /\ ns.df[i].Quality_adjusted_reconciliation.m # 0
        /\ ns.df[i].Quality_adjusted_reconciliation # ns.df[i].Annual_reconciliation

\* The quality-adjusted column added up row by row, from the first row.
RECURSIVE SumOfFirst(_)
SumOfFirst(k) ==
    IF k = 0 THEN Zero
    ELSE FAdd(SumOfFirst(k - 1), ns.df[k].Quality_adjusted_reconciliation)

\* C2: the total reconciliation is the sum of the quality-adjusted column
\* over all rows (added in row order), the program cost is the
\* implementation cost as entered, net impact = total - implementation cost,
\* and with a non-zero implementation cost
\* ROI % = net impact / implementation cost * 100.
C2_Aggregates ==
    Results =>
        /\ ns.total_rec = SumOfFirst(Len(ns.df))
        /\ ns.net_impact = FSub(ns.total_rec, widgets.impl_cost_total)
        /\ widgets.impl_cost_total.m # 0 =>
               ns.roi_pct =
                   FMul(FDiv(ns.net_impact, widgets.impl_cost_total), Hundred)

\* C2 witness: results with a non-zero implementation cost, a non-zero
\* total and a non-zero ROI, after an edit.
C2_Witness ==
    /\ Results
    /\ edits > 0
    /\ widgets.impl_cost_total.m # 0
    /\ ns.total_rec.m # 0
    /\ ns.roi_pct.m # 0

\* C3: with an implementation cost of 0 the run still renders its results
\* and ROI % is exactly 0.
C3_ZeroCostGuard ==
    (DEFAULT_EPISODES # << >> /\ widgets.impl_cost_total.m = 0) =>
        /\ page = ResultsPage
        /\ Results
        /\ ns.roi_pct = Zero

\* C3 witness: implementation cost 0 with volumes above 0 and a non-zero
\* total reconciliation.
C3_Witness ==
    /\ widgets.impl_cost_total.m = 0
    /\ Results
    /\ ns.total_rec.m # 0
    /\ \E p \in DOMAIN widgets.vol : widgets.vol[p] > 0

\* C4 (as claimed): when every category's annual volume is 0, the run ends
\* in the "nothing to compute" state, with no result rows and no aggregates.
C4_ZeroVolumeNothingToCompute ==
    (\A p \in DOMAIN widgets.vol : widgets.vol[p] = 0) =>
        /\ page = WarningPage
        /\ ~Results
        /\ "roi_pct" \notin DOMAIN ns

\* C5: with an empty list of rows the run stops at the warning, before any
\* calculation: no table and no aggregate is bound or rendered.
C5_EmptyRowsStop ==
    ns.rows = << >> =>
        /\ page = WarningPage
        /\ DOMAIN ns = {"rows"}

\* C5 witness: a re-run over an empty catalogue that stopped at the warning.
C5_Witness ==
    /\ edits > 0
    /\ DEFAULT_EPISODES = << >>
    /\ ns.rows = << >>
    /\ page = WarningPage

\* The widget key of an annual-volume or baseline-cost input.
CategoryKeys ==
    {<<"vol", p>> : p \in DOMAIN widgets.vol}
        \cup {<<"base", p>> : p \in DOMAIN widgets.base_cost}

\* C6 (as claimed): after a negative annual volume or baseline cost is
\* entered, the calculation reports an InvalidCategory error that names the
\* field and shows no result rows and no aggregates.
C6_InvalidCategoryReported ==
    refused \in CategoryKeys =>
        /\ page = <<"InvalidCategory", refused>>
        /\ ~Results

\* C6 (amended): a negative annual volume or baseline cost never reaches the
\* calculation: every row of every run has a volume >= 0 and a baseline cost
\* >= 0.  The script has no error state of its own: after a refused entry
\* the widgets hold what they held and the page still shows the results of
\* the committed inputs.
C6_NegativeNeverComputed ==
    /\ \A i \in 1..Len(ns.rows) :
        /\ ns.rows[i].Volume >= 0
        /\ NonNegative(ns.rows[i].Baseline_cost)
    /\ \A p \in DOMAIN widgets.vol :
        widgets.vol[p] >= 0 /\ NonNegative(widgets.base_cost[p])
    /\ (refused \in CategoryKeys /\ DEFAULT_EPISODES # << >>) =>
        /\ page = ResultsPage
        /\ Results
        /\ Len(ns.df) = Len(DEFAULT_EPISODES)

\* C6 witness: a negative annual volume was just entered and refused.
C6_Witness ==
    /\ \E p \in DOMAIN widgets.vol : refused = <<"vol", p>>
    /\ Results

\* The permutations of 1..n.
Perms(n) == {f \in [1..n -> 1..n] : \A i, j \in 1..n : f[i] = f[j] => i = j}

Permuted(seq, f) == [i \in 1..Len(seq) |-> seq[f[i]]]

\* A run of the script over the catalogue permuted by f, every procedure
\* keeping its widget values.
PermutedRun(f) == Script(Permuted(DEFAULT_EPISODES, f), widgets, << >>)

\* C7 (as claimed): permuting the category list permutes the result rows by
\* the same permutation and leaves the total reconciliation, the net impact
\* and ROI % unchanged (the program cost is the same widget value).
C7_OrderInvariance ==
    Results =>
        \A f \in Perms(Len(DEFAULT_EPISODES)) :
            \E run \in {PermutedRun(f).ns} :
                /\ run.df = Permuted(ns.df, f)
                /\ run.total_rec = ns.total_rec
                /\ run.net_impact = ns.net_impact
                /\ run.roi_pct = ns.roi_pct

\* C7 (amended): permuting the category list permutes the result rows by
\* the same permutation; with at most two categories it leaves the total
\* reconciliation, the net impact and ROI % unchanged.  (With three or more
\* the total is a float sum taken in row order, and float addition is not
\* associative.)
C7_RowsPermutedPairSum ==
    Results =>
        \A f \in Perms(Len(DEFAULT_EPISODES)) :
            \E run \in {PermutedRun(f).ns} :
                /\ run.df = Permuted(ns.df, f)
                /\ Len(DEFAULT_EPISODES) <= 2 =>
                    /\ run.total_rec = ns.total_rec
                    /\ run.net_impact = ns.net_impact
                    /\ run.roi_pct = ns.roi_pct

\* C7 witness: results over two categories whose quality-adjusted
\* reconciliations are non-zero and differ, after an edit.
C7_Witness ==
    /\ Results
    /\ edits > 0
    /\ Len(ns.df) = 2
    /\ ns.df[1].Quality_adjusted_reconciliation.m # 0
    /\ ns.df[2].Quality_adjusted_reconciliation.m # 0
    /\ ns.df[1].Quality_adjusted_reconciliation
           # ns.df[2].Quality_adjusted_reconciliation

\* C8: what a run leaves bound and rendered is what a first run over the
\* current widget values leaves: nothing of an earlier run or of earlier
\* inputs is carried over.
C8_Stateless ==
    \E fresh \in {Script(DEFAULT_EPISODES, widgets, << >>)} :
        /\ ns = fresh.ns
        /\ page = fresh.page

\* C8 witness: after inputs were changed and changed back, the widgets hold
\* their first values again.
C8_Witness ==
    /\ edits >= 2
    /\ refused = << >>
    /\ widgets = DefaultWidgets(DEFAULT_EPISODES)
    /\ Results

\* C9 (as claimed): with Track 1 selected, every category's quality-adjusted
\* reconciliation and the total reconciliation are >= 0.
C9_UpsideOnlyTrack1 ==
    (Results /\ widgets.track = "Track 1") =>
        /\ \A i \in 1..Len(ns.df) :
            NonNegative(ns.df[i].Quality_adjusted_reconciliation)
        /\ NonNegative(ns.total_rec)

\* C10: the form keeps the cost reduction in [0, 30] and the discount in
\* [0, 10], and every row has 0 <= expected cost <= baseline cost and
\* 0 <= target price <= baseline cost.
C10_CostsWithinBaseline ==
    /\ FLe(DiscountMin, widgets.discount_pct)
    /\ FLe(widgets.discount_pct, DiscountMax)
    /\ \A p \in DOMAIN widgets.reduction :
        /\ FLe(ReductionMin, widgets.reduction[p])
        /\ FLe(widgets.reduction[p], ReductionMax)
    /\ Results =>
        \A i \in 1..Len(ns.df) :
            /\ NonNegative(ns.df[i].Baseline_cost)
            /\ NonNegative(ns.df[i].Expected_cost)
            /\ FLe(ns.df[i].Expected_cost, ns.df[i].Baseline_cost)
            /\ NonNegative(ns.df[i].Target_price)
            /\ FLe(ns.df[i].Target_price, ns.df[i].Baseline_cost)

\* C10 witness: the largest cost reduction and the largest discount on a row
\* with a baseline cost above 0.
C10_Witness ==
    /\ Results
    /\ widgets.discount_pct = DiscountMax
    /\ \E i \in 1..Len(ns.df) :
        /\ ns.df[i].Cost_reduction_pct = ReductionMax
        /\ ns.df[i].Baseline_cost.m > 0
        /\ FLt(ns.df[i].Expected_cost, ns.df[i].Baseline_cost)
        /\ FLt(ns.df[i].Target_price, ns.df[i].Baseline_cost)

====
